---- MODULE Spec2Model ----
(***************************************************************************)
(* lsl_lib_version.h: the header that builds LSL_LIBRARY_INFO_STR from the  *)
(* version token LSL_VERSION_INFO and the link-type token LSL_LIBTYPE_DART. *)
(*                                                                         *)
(* The header is preprocessor text, so the model is the preprocessor's      *)
(* state while it works through one translation unit: the macro table, the  *)
(* last directive processed and the last use of a macro in program text.    *)
(* Macro replacement follows C11 6.10.3 (argument collection, full          *)
(* expansion of arguments, the # operator, rescanning with hide sets);      *)
(* adjacent string literals are concatenated as in translation phase 6.     *)
(***************************************************************************)
EXTENDS Naturals, Sequences, FiniteSets, TLC

VARIABLES
    defs,    \* the macro table: macro name -> its definition (or Undefined)
    last,    \* the directive or use processed last
    out,     \* the last use of a macro in program text and what it produced
    prev,    \* the use before that one
    failed,  \* the translation unit has been rejected by the compiler
    n        \* number of directives and uses processed so far

vars == <<defs, last, out, prev, failed, n>>

\* Number of directives and uses in the translation unit.
MaxSteps == 4

(***************************************************************************)
(* Preprocessing tokens.  k: identifier, pp-number, punctuator or string    *)
(* literal; s: the spelling (for a string literal: the source characters    *)
(* between the quotes are in c, as chunks, an escape sequence being a chunk *)
(* of its own); sp: preceded by white space; hs: the hide set (macro names  *)
(* this token must not be replaced by again).                               *)
(***************************************************************************)
Tok(k, s, c, sp) == [k |-> k, s |-> s, c |-> c, sp |-> sp, hs |-> {}]
Id(s)    == Tok("id", s, <<>>, FALSE)
Num(s)   == Tok("num", s, <<>>, FALSE)
P(s)     == Tok("punct", s, <<>>, FALSE)
Str(c)   == Tok("str", "", c, FALSE)
Sp(t)    == [t EXCEPT !.sp = TRUE]

\* The names the model follows.
LIS    == "LSL_LIBRARY_INFO_STR"
VINFO  == "LSL_VERSION_INFO"
LTYPE  == "LSL_LIBTYPE_DART"
\* A link-type parameter of the build, which the header does not read.
BUILDPAR == "LSL_LIB_TYPE"
Names  == {LIS, "MSTR_EXPAND", "MSTR", LTYPE, VINFO, "link", "SHARED", BUILDPAR}

\* Macro definitions: object-like, function-like with one parameter, or none.
Undefined  == [kind |-> "undef", par |-> "", body |-> <<>>]
Obj(body)  == [kind |-> "obj", par |-> "", body |-> body]
Fn(p, body) == [kind |-> "fn", par |-> p, body |-> body]
Defined(d, name) == name \in DOMAIN d /\ d[name].kind # "undef"

(***************************************************************************)
(* The header's four #define lines.                                        *)
(***************************************************************************)
\* #define MSTR_EXPAND(tok) #tok
MSTR_EXPAND == Fn("tok", <<P("#"), Id("tok")>>)

\* Variant of line 3 that stringifies at once: #define MSTR(tok) #tok
MSTR_OneLevel == Fn("tok", <<P("#"), Id("tok")>>)

\* #define MSTR(tok) MSTR_EXPAND(tok)
MSTR == Fn("tok", <<Id("MSTR_EXPAND"), P("("), Id("tok"), P(")")>>)

\* Variant of line 5 without the "link:" prefix: #define LSL_LIBTYPE_DART SHARED
LIBTYPE_Bare == Obj(<<Id("SHARED")>>)

\* Variant of line 5 that reads the build's parameter:
\* #define LSL_LIBTYPE_DART link:LSL_LIB_TYPE
LIBTYPE_FromBuild == Obj(<<Id("link"), P(":"), Id(BUILDPAR)>>)

\* #define LSL_LIBTYPE_DART link:SHARED
LSL_LIBTYPE_DART == Obj(<<Id("link"), P(":"), Id("SHARED")>>)

\* Variant of line 7 with one call around the whole list:
\* MSTR(LSL_VERSION_INFO "/" LSL_LIBTYPE_DART)
LIS_OneCall ==
    Obj(<<Id("MSTR"), P("("), Id(VINFO), Sp(Str(<<"/">>)), Sp(Id(LTYPE)), P(")")>>)

\* Variant of line 7 with the two fields exchanged.
LIS_Swapped ==
    Obj(<<Id("MSTR"), P("("), Id(LTYPE), P(")"),
          Sp(Str(<<"/">>)),
          Sp(Id("MSTR")), P("("), Id(VINFO), P(")")>>)

\* Variant of line 7 without the "/" literal.
LIS_NoSeparator ==
    Obj(<<Id("MSTR"), P("("), Id(VINFO), P(")"),
          Sp(Id("MSTR")), P("("), Id(LTYPE), P(")")>>)

\* #define LSL_LIBRARY_INFO_STR MSTR(LSL_VERSION_INFO) "/" MSTR(LSL_LIBTYPE_DART)
LSL_LIBRARY_INFO_STR ==
    Obj(<<Id("MSTR"), P("("), Id(VINFO), P(")"),
          Sp(Str(<<"/">>)),
          Sp(Id("MSTR")), P("("), Id(LTYPE), P(")")>>)

(***************************************************************************)
(* Stringification, the # operator of line 2 (C11 6.10.3.2): the spelling   *)
(* of the argument's tokens, one space where white space separated two      *)
(* tokens, none before the first or after the last; inside a string literal *)
(* a \ is put before each " and each \.                                     *)
(***************************************************************************)
Quote     == "\""
Backslash == "\\"
EscQuote  == "\\\""
EscBackslash == "\\\\"

RECURSIVE EscapeChunks(_)
EscapeChunks(c) ==
    IF c = <<>> THEN <<>>
    ELSE (IF Head(c) = EscQuote THEN <<EscBackslash, EscQuote>>
          ELSE IF Head(c) = EscBackslash THEN <<EscBackslash, EscBackslash>>
          ELSE <<Head(c)>>) \o EscapeChunks(Tail(c))

Spelling(t) ==
    IF t.k = "str" THEN <<EscQuote>> \o EscapeChunks(t.c) \o <<EscQuote>>
    ELSE <<t.s>>

RECURSIVE StringifyFrom(_, _)
StringifyFrom(ts, i) ==
    IF i > Len(ts) THEN <<>>
    ELSE (IF i > 1 /\ ts[i].sp THEN <<" ">> ELSE <<>>)
         \o Spelling(ts[i]) \o StringifyFrom(ts, i + 1)

Stringify(ts) == Str(StringifyFrom(ts, 1))

(***************************************************************************)
(* Macro replacement (C11 6.10.3), as lines 2, 3 and 7 use it.              *)
(***************************************************************************)
AddHide(ts, hs) == [i \in DOMAIN ts |-> [ts[i] EXCEPT !.hs = @ \cup hs]]
SetSpace(ts, sp) ==
    IF ts = <<>> THEN ts ELSE <<[ts[1] EXCEPT !.sp = sp]>> \o Tail(ts)

\* Index in ts of the ")" that closes the "(" at position 1; 0 when there is none.
RECURSIVE CloseParen(_, _, _)
CloseParen(ts, i, depth) ==
    IF i > Len(ts) THEN 0
    ELSE IF ts[i].k = "punct" /\ ts[i].s = "(" THEN CloseParen(ts, i + 1, depth + 1)
    ELSE IF ts[i].k = "punct" /\ ts[i].s = ")"
         THEN (IF depth = 1 THEN i ELSE CloseParen(ts, i + 1, depth - 1))
    ELSE CloseParen(ts, i + 1, depth)

RECURSIVE Expand(_, _)
RECURSIVE Subst(_, _, _, _)

\* The replacement list of macro m with the argument put in: a parameter
\* after # becomes the argument's spelling, any other parameter the fully
\* macro-expanded argument.
Subst(m, actual, i, d) ==
    IF i > Len(m.body) THEN <<>>
    ELSE LET t == m.body[i]
             isPar(u) == m.kind = "fn" /\ u.k = "id" /\ u.s = m.par
         IN  IF m.kind = "fn" /\ t.k = "punct" /\ t.s = "#"
                /\ i < Len(m.body) /\ isPar(m.body[i + 1])
             THEN <<[Stringify(actual) EXCEPT !.sp = t.sp]>> \o Subst(m, actual, i + 2, d)
             ELSE IF isPar(t)
             THEN SetSpace(Expand(actual, d), t.sp) \o Subst(m, actual, i + 1, d)
             ELSE <<t>> \o Subst(m, actual, i + 1, d)

\* Rescanning and further replacement, left to right.
Expand(ts, d) ==
    IF ts = <<>> THEN <<>>
    ELSE LET t == Head(ts)
             rest == Tail(ts)
         IN  IF t.k # "id" \/ ~Defined(d, t.s) \/ t.s \in t.hs
             THEN <<t>> \o Expand(rest, d)
             ELSE IF d[t.s].kind = "obj"
             THEN Expand(SetSpace(AddHide(Subst(d[t.s], <<>>, 1, d), t.hs \cup {t.s}), t.sp)
                         \o rest, d)
             ELSE LET close == IF rest # <<>> /\ rest[1].k = "punct" /\ rest[1].s = "("
                               THEN CloseParen(rest, 1, 0) ELSE 0
                  IN  IF close = 0
                      THEN <<t>> \o Expand(rest, d)
                      ELSE Expand(
                             SetSpace(AddHide(Subst(d[t.s], SubSeq(rest, 2, close - 1), 1, d),
                                              (t.hs \cap rest[close].hs) \cup {t.s}), t.sp)
                             \o SubSeq(rest, close + 1, Len(rest)), d)

(***************************************************************************)
(* What the compiler makes of the expanded tokens where a string is         *)
(* expected: adjacent string literals are concatenated (phase 6) and the    *)
(* escape sequences replaced by the characters they stand for; anything     *)
(* else (an identifier left over, nothing at all) does not compile.         *)
(***************************************************************************)
Unescape(chunk) ==
    IF chunk = EscQuote THEN Quote
    ELSE IF chunk = EscBackslash THEN Backslash
    ELSE chunk

RECURSIVE Concat(_)
Concat(ss) == IF ss = <<>> THEN "" ELSE Head(ss) \o Concat(Tail(ss))

Value(t) == Concat([i \in DOMAIN t.c |-> Unescape(t.c[i])])

IsStringExpr(ts) == ts # <<>> /\ \A i \in DOMAIN ts : ts[i].k = "str"

Compile(ts) ==
    IF IsStringExpr(ts)
    THEN [kind |-> "string",
          parts |-> [i \in DOMAIN ts |-> Value(ts[i])],
          str |-> Concat([i \in DOMAIN ts |-> Value(ts[i])])]
    ELSE [kind |-> "error", parts |-> <<>>, str |-> ""]

(***************************************************************************)
(* Directives.                                                             *)
(***************************************************************************)
\* #define name ...: the definition replaces whatever the name had.
DefineMacro(d, name, m) == [d EXCEPT ![name] = m]

\* A #define of a name that is defined otherwise: a constraint violation
\* (C11 6.10.3p2); the compiler must diagnose it and may go on or reject.
Redefines(d, name, m) == Defined(d, name) /\ d[name] # m

\* #undef name
UndefMacro(d, name) == [d EXCEPT ![name] = Undefined]

\* Variant without the guard of lines 1 and 8.
GuardOpen_Always(d) == TRUE

\* Lines 1 and 8: the text between is skipped when LSL_LIBRARY_INFO_STR is
\* defined.
GuardOpen(d) == ~Defined(d, LIS)

\* Variant whose line 5 defines the version token instead of the link type.
IncludeHeader_WrongName(d) ==
    IF GuardOpen(d)
    THEN DefineMacro(
           DefineMacro(
             DefineMacro(
               DefineMacro(d, "MSTR_EXPAND", MSTR_EXPAND),
               "MSTR", MSTR),
             VINFO, LSL_LIBTYPE_DART),
           LIS, LSL_LIBRARY_INFO_STR)
    ELSE d

\* The macro table after the header's text, lines 1 to 8.
IncludeHeader(d) ==
    IF GuardOpen(d)
    THEN DefineMacro(
           DefineMacro(
             DefineMacro(
               DefineMacro(d, "MSTR_EXPAND", MSTR_EXPAND),
               "MSTR", MSTR),
             LTYPE, LSL_LIBTYPE_DART),
           LIS, LSL_LIBRARY_INFO_STR)
    ELSE d

\* One of the header's #define lines meets another definition of its name.
HeaderClash(d) ==
    GuardOpen(d) /\ (\/ Redefines(d, "MSTR_EXPAND", MSTR_EXPAND)
                     \/ Redefines(d, "MSTR", MSTR)
                     \/ Redefines(d, LTYPE, LSL_LIBTYPE_DART))

(***************************************************************************)
(* What the rest of the translation unit may do: the definitions a build    *)
(* or an includer gives, and the expressions it uses.                       *)
(***************************************************************************)
UserBodies(name) ==
    CASE name = VINFO -> {Obj(<<Num("1.2.3")>>),
                          Obj(<<Num("0.0.0"), P("-"), Id("dev")>>)}
      [] name = LTYPE -> {Obj(<<Id("STATIC")>>), Obj(<<>>)}
      [] name = LIS -> {Obj(<<Str(<<"custom">>)>>)}
      [] name = "SHARED" -> {Obj(<<Num("1")>>)}
      [] name = "link" -> {Obj(<<Id("lnk")>>)}
      [] name = BUILDPAR -> {Obj(<<Id("STATIC")>>)}
      [] OTHER -> {}

NoCall == "-"
Exprs ==
    {[f |-> NoCall, a |-> LIS]}
    \cup {[f |-> g, a |-> x] : g \in {"MSTR", "MSTR_EXPAND"}, x \in {VINFO, LTYPE}}

ExprTokens(e) ==
    IF e.f = NoCall THEN <<Id(e.a)>> ELSE <<Id(e.f), P("("), Id(e.a), P(")")>>

\* The value the compiler gives expression e under macro table d.
Evaluate(e, d) == Compile(Expand(ExprTokens(e), d))

NoUse == [e |-> [f |-> NoCall, a |-> NoCall], env |-> [x \in Names |-> Undefined],
          kind |-> "none", parts |-> <<>>, str |-> ""]

(***************************************************************************)
(* The translation unit, one directive or use at a time.                    *)
(***************************************************************************)
Init ==
    /\ defs = [x \in Names |-> Undefined]
    /\ last = [op |-> "start", arg |-> NoCall]
    /\ out = NoUse
    /\ prev = NoUse
    /\ failed = FALSE
    /\ n = 0

Step == ~failed /\ n < MaxSteps /\ n' = n + 1

Define(name, m) ==
    /\ Step
    /\ defs' = DefineMacro(defs, name, m)
    /\ failed' \in (IF Redefines(defs, name, m) THEN {FALSE, TRUE} ELSE {FALSE})
    /\ last' = [op |-> "define", arg |-> name]
    /\ UNCHANGED <<out, prev>>

Undef(name) ==
    /\ Step
    /\ defs' = UndefMacro(defs, name)
    /\ last' = [op |-> "undef", arg |-> name]
    /\ UNCHANGED <<out, prev, failed>>

Include ==
    /\ Step
    /\ defs' = IncludeHeader(defs)
    /\ failed' \in (IF HeaderClash(defs) THEN {FALSE, TRUE} ELSE {FALSE})
    /\ last' = [op |-> "include", arg |-> IF GuardOpen(defs) THEN "taken" ELSE "skipped"]
    /\ UNCHANGED <<out, prev>>

Use(e) ==
    /\ Step
    /\ LET r == Evaluate(e, defs)
       IN  /\ out' = [e |-> e, env |-> defs, kind |-> r.kind, parts |-> r.parts, str |-> r.str]
           /\ failed' = (r.kind = "error")
    /\ prev' = out
    /\ last' = [op |-> "use", arg |-> e.a]
    /\ UNCHANGED defs

Next ==
    \/ \E name \in Names : \E m \in UserBodies(name) : Define(name, m)
    \/ \E name \in Names : Undef(name)
    \/ Include
    \/ \E e \in Exprs : Use(e)

Spec == Init /\ [][Next]_vars

(***************************************************************************)
(* Vocabulary of the properties.                                           *)
(***************************************************************************)
LisExpr == [f |-> NoCall, a |-> LIS]

\* u records a use of LSL_LIBRARY_INFO_STR in program text.
UsesLis(u) == u.kind # "none" /\ u.e = LisExpr

\* The header's definitions of the three macros a use goes through are the
\* ones in force in macro table d.
HeaderInForce(d) ==
    /\ d[LIS] = LSL_LIBRARY_INFO_STR
    /\ d["MSTR"] = MSTR
    /\ d["MSTR_EXPAND"] = MSTR_EXPAND

\* The text of a replacement list as written: the tokens' spellings, a space
\* where white space separates two of them.
RECURSIVE SourceText(_, _)
SourceText(ts, i) ==
    IF i > Len(ts) THEN ""
    ELSE (IF i > 1 /\ ts[i].sp THEN " " ELSE "") \o ts[i].s \o SourceText(ts, i + 1)

\* Some identifier of replacement list ts is a macro in table d.
NamesMacro(d, ts) == \E i \in DOMAIN ts : ts[i].k = "id" /\ Defined(d, ts[i].s)

\* The text of a replacement list with every object-like macro in it replaced
\* by the text of its own replacement list, to any depth.
RECURSIVE FullText(_, _, _)
FullText(d, ts, i) ==
    IF i > Len(ts) THEN ""
    ELSE (IF i > 1 /\ ts[i].sp THEN " " ELSE "")
         \o (IF ts[i].k = "id" /\ Defined(d, ts[i].s) /\ d[ts[i].s].kind = "obj"
             THEN FullText(d, d[ts[i].s].body, 1)
             ELSE ts[i].s)
         \o FullText(d, ts, i + 1)

\* The text a token name stands for in table d: its expanded definition, or
\* the name itself when it has none.
FieldText(d, name) ==
    IF Defined(d, name) THEN FullText(d, d[name].body, 1) ELSE name

(***************************************************************************)
(* C1 (as stated): whenever LSL_LIBRARY_INFO_STR, as the header defines it, *)
(* is used with both tokens defined, it is the text of the definition of    *)
(* LSL_VERSION_INFO, "/", the text of the definition of LSL_LIBTYPE_DART.   *)
(***************************************************************************)
C1_AsStated ==
    (UsesLis(out) /\ HeaderInForce(out.env)
        /\ Defined(out.env, VINFO) /\ Defined(out.env, LTYPE))
    => /\ out.kind = "string"
       /\ out.str = SourceText(out.env[VINFO].body, 1) \o "/"
                    \o SourceText(out.env[LTYPE].body, 1)

\* The case of C1: a use through the header with both tokens defined and no
\* macro named in either definition.
C1_Pre ==
    /\ UsesLis(out) /\ HeaderInForce(out.env)
    /\ Defined(out.env, VINFO) /\ Defined(out.env, LTYPE)
    /\ ~NamesMacro(out.env, out.env[VINFO].body)
    /\ ~NamesMacro(out.env, out.env[LTYPE].body)

(***************************************************************************)
(* C1 (amended): the same, for definitions of the two tokens in which no    *)
(* identifier is itself defined as a macro at the use.                      *)
(***************************************************************************)
C1_Format ==
    C1_Pre
    => /\ out.kind = "string"
       /\ out.str = SourceText(out.env[VINFO].body, 1) \o "/"
                    \o SourceText(out.env[LTYPE].body, 1)

C1_Witness == C1_Pre /\ out.str = "0.0.0-dev/STATIC"

(***************************************************************************)
(* C2 (as stated): a use of LSL_LIBRARY_INFO_STR, as the header defines it, *)
(* while LSL_VERSION_INFO or LSL_LIBTYPE_DART is undefined does not         *)
(* compile.                                                                *)
(***************************************************************************)
C2_AsStated ==
    (UsesLis(out) /\ HeaderInForce(out.env)
        /\ (~Defined(out.env, VINFO) \/ ~Defined(out.env, LTYPE)))
    => out.kind = "error"

\* The case of C2: a use of LSL_LIBRARY_INFO_STR through the header's definitions.
C2_Pre == UsesLis(out) /\ HeaderInForce(out.env)

(***************************************************************************)
(* C2 (amended): such a use compiles, and the field of an undefined token   *)
(* is the token's own name.                                                *)
(***************************************************************************)
C2_UndefinedTokenIsItsName ==
    C2_Pre
    => /\ out.kind = "string" /\ Len(out.parts) = 3
       /\ last.op = "use" => ~failed
       /\ ~Defined(out.env, VINFO) => out.parts[1] = VINFO
       /\ ~Defined(out.env, LTYPE) => out.parts[3] = LTYPE

C2_Witness ==
    /\ C2_Pre /\ ~Defined(out.env, VINFO)
    /\ out.str = "LSL_VERSION_INFO/link:SHARED"

\* The case of C3: the header's definitions in force, the version token 1.2.3,
\* no macro named link or SHARED.
C3_Case ==
    /\ UsesLis(out) /\ HeaderInForce(out.env)
    /\ out.env[VINFO] = Obj(<<Num("1.2.3")>>)
    /\ out.env[LTYPE] = LSL_LIBTYPE_DART
    /\ ~Defined(out.env, "link") /\ ~Defined(out.env, "SHARED")

(***************************************************************************)
(* C3 (as stated): with LSL_VERSION_INFO defined as 1.2.3 and the header's  *)
(* definitions in force, LSL_LIBRARY_INFO_STR is "1.2.3/SHARED".            *)
(***************************************************************************)
C3_AsStated == C3_Case => out.kind = "string" /\ out.str = "1.2.3/SHARED"

(***************************************************************************)
(* C3 (amended): in that case LSL_LIBRARY_INFO_STR is "1.2.3/link:SHARED".  *)
(***************************************************************************)
C3_Example == C3_Case => out.kind = "string" /\ out.str = "1.2.3/link:SHARED"

C3_Witness == C3_Case /\ last.op = "use" /\ ~failed

(***************************************************************************)
(* C4 (as stated): an inclusion leaves undefined every name other than      *)
(* LSL_LIBRARY_INFO_STR that was undefined before it.                       *)
(***************************************************************************)
C4_AsStated ==
    [][last'.op = "include"
       => \A x \in Names \ {LIS} : ~Defined(defs, x) => ~Defined(defs', x)]_vars

\* The names the header defines.
HeaderNames == {LIS, "MSTR_EXPAND", "MSTR", LTYPE}

(***************************************************************************)
(* C4 (amended): an inclusion changes the definition of no name other than  *)
(* LSL_LIBRARY_INFO_STR, MSTR_EXPAND, MSTR and LSL_LIBTYPE_DART, and leaves *)
(* those four defined.                                                     *)
(***************************************************************************)
C4_Frame ==
    [][last'.op = "include"
       => /\ \A x \in Names \ HeaderNames : defs'[x] = defs[x]
          /\ last'.arg = "taken" => \A x \in HeaderNames : Defined(defs', x)]_vars

C4_Witness ==
    /\ last = [op |-> "include", arg |-> "taken"]
    /\ Defined(defs, "MSTR") /\ Defined(defs, "MSTR_EXPAND") /\ Defined(defs, LTYPE)
    /\ ~Defined(defs, VINFO) /\ ~Defined(defs, "SHARED")

\* The case of C5: two uses after the inclusion, with only the two tokens
\* redefined between them.
C5_Pre ==
    /\ UsesLis(prev) /\ UsesLis(out)
    /\ HeaderInForce(prev.env)
    /\ \A x \in Names \ {VINFO, LTYPE} : out.env[x] = prev.env[x]

(***************************************************************************)
(* C5 (as stated): two uses of LSL_LIBRARY_INFO_STR after the inclusion     *)
(* yield the same string, whatever was done to LSL_VERSION_INFO and         *)
(* LSL_LIBTYPE_DART between them.                                           *)
(***************************************************************************)
C5_AsStated == C5_Pre => out.kind = prev.kind /\ out.str = prev.str

(***************************************************************************)
(* C5 (amended): each such use yields the string made of the two tokens as  *)
(* they are defined at that use (the expanded definition, or the token's    *)
(* name when it has none), not as they were at the inclusion or at an       *)
(* earlier use.                                                            *)
(***************************************************************************)
C5_ValueFollowsDefinitions ==
    C5_Pre
    => /\ out.kind = "string"
       /\ out.parts = <<FieldText(out.env, VINFO), "/", FieldText(out.env, LTYPE)>>
       /\ prev.parts = <<FieldText(prev.env, VINFO), "/", FieldText(prev.env, LTYPE)>>

C5_Witness ==
    /\ C5_Pre
    /\ prev.str = "LSL_VERSION_INFO/link:SHARED"
    /\ out.str = "1.2.3/link:SHARED"

\* Two uses through the header with the two tokens defined alike.
C6_SameTokens ==
    /\ UsesLis(prev) /\ UsesLis(out)
    /\ HeaderInForce(prev.env) /\ HeaderInForce(out.env)
    /\ out.env[VINFO] = prev.env[VINFO]
    /\ out.env[LTYPE] = prev.env[LTYPE]

C6_Pre ==
    /\ C6_SameTokens
    /\ out.env["link"] = prev.env["link"]
    /\ out.env["SHARED"] = prev.env["SHARED"]

C7_Pre ==
    /\ UsesLis(out) /\ HeaderInForce(out.env)
    /\ Defined(out.env, VINFO)
    /\ out.env[LTYPE] = Obj(<<>>)

(***************************************************************************)
(* C7: with LSL_LIBTYPE_DART defined as nothing, LSL_LIBRARY_INFO_STR is    *)
(* the version text followed by "/" and nothing else; it compiles and the   *)
(* separator stays.                                                        *)
(***************************************************************************)
C7_EmptyLinkType ==
    C7_Pre
    => /\ out.kind = "string"
       /\ out.str = SourceText(out.env[VINFO].body, 1) \o "/"
       /\ out.parts[Len(out.parts)] = ""

C7_Witness == C7_Pre /\ out.str = "1.2.3/"

\* A use through the header with LSL_LIBTYPE_DART as line 5 defines it.
C8_HeaderLinkType ==
    /\ UsesLis(out) /\ HeaderInForce(out.env)
    /\ out.env[LTYPE] = LSL_LIBTYPE_DART

(***************************************************************************)
(* C8 (as stated): while LSL_LIBTYPE_DART is as the header defines it, the  *)
(* part of LSL_LIBRARY_INFO_STR after the separator is the text of that     *)
(* definition, whatever else the build defines.                             *)
(***************************************************************************)
C8_AsStated ==
    C8_HeaderLinkType
    => /\ out.kind = "string"
       /\ out.parts[Len(out.parts)] = SourceText(LSL_LIBTYPE_DART.body, 1)

\* The case of C8: besides, neither link nor SHARED is a macro.
C8_Pre ==
    /\ C8_HeaderLinkType
    /\ ~Defined(out.env, "link") /\ ~Defined(out.env, "SHARED")

(***************************************************************************)
(* C8 (amended): it is, whatever LSL_VERSION_INFO and LSL_LIB_TYPE are,     *)
(* provided neither link nor SHARED is defined as a macro at the use.       *)
(***************************************************************************)
C8_HardCoded ==
    C8_Pre
    => /\ out.kind = "string"
       /\ out.parts[Len(out.parts)] = SourceText(LSL_LIBTYPE_DART.body, 1)

C8_Witness ==
    /\ C8_Pre
    /\ Defined(out.env, BUILDPAR) /\ Defined(out.env, VINFO)
    /\ out.kind = "string"

(***************************************************************************)
(* C9: an inclusion while LSL_LIBRARY_INFO_STR is defined changes no        *)
(* definition and raises no diagnostic; so does an inclusion that follows   *)
(* an inclusion directly.                                                  *)
(***************************************************************************)
C9_GuardedNoOp ==
    [][(last'.op = "include" /\ (Defined(defs, LIS) \/ last.op = "include"))
       => defs' = defs /\ failed' = failed]_vars

C9_Witness ==
    /\ last = [op |-> "include", arg |-> "skipped"]
    /\ Defined(defs, LIS) /\ defs[LIS] # LSL_LIBRARY_INFO_STR
    /\ ~Defined(defs, "MSTR") /\ ~Defined(defs, "MSTR_EXPAND")
    /\ Defined(defs, LTYPE) /\ defs[LTYPE] # LSL_LIBTYPE_DART

\* The case of C10: a use of MSTR(tok) or MSTR_EXPAND(tok) with the header's
\* two macros.
C10_Pre ==
    /\ out.kind # "none" /\ out.e.f \in {"MSTR", "MSTR_EXPAND"}
    /\ out.env["MSTR"] = MSTR /\ out.env["MSTR_EXPAND"] = MSTR_EXPAND

(***************************************************************************)
(* C10: with the header's MSTR and MSTR_EXPAND, MSTR(tok) is the text of    *)
(* tok's expanded definition and MSTR_EXPAND(tok) the name tok; for a tok   *)
(* without a definition both are the name tok.                              *)
(***************************************************************************)
C10_TwoLevel ==
    C10_Pre
    => /\ out.kind = "string"
       /\ out.e.f = "MSTR" /\ Defined(out.env, out.e.a)
            => out.str = FullText(out.env, out.env[out.e.a].body, 1)
       /\ out.e.f = "MSTR" /\ ~Defined(out.env, out.e.a) => out.str = out.e.a
       /\ out.e.f = "MSTR_EXPAND" => out.str = out.e.a

C10_Witness ==
    /\ C10_Pre
    /\ out.e = [f |-> "MSTR", a |-> LTYPE] /\ out.str = "link:1"
    /\ prev.e = [f |-> "MSTR_EXPAND", a |-> LTYPE] /\ prev.str = LTYPE
    /\ prev.env = out.env

====
